---- MODULE Spec2Model ----
(***************************************************************************)
(* Model of the ExtractFeature package: Config (config.py),                *)
(* validate_config (utils/utils.py), FeatureExtractor (extractor.py) and   *)
(* the orchestrating functions of main.py.                                 *)
(*                                                                         *)
(* A text value is a sequence of one-character strings.  A cell of a       *)
(* DataFrame is a tagged record: null (NaN), text, boolean or integer.     *)
(* A DataFrame is a record of an ordered column list and an ordered row    *)
(* list, each row a function from column name to cell.                     *)
(***************************************************************************)
EXTENDS Integers, Sequences, FiniteSets, TLC

VARIABLES
  pc,         \* position of the run
  config,     \* the configuration mapping in the configuration file
  valid,      \* what Config.validate() last returned: "unset", "true", "false"
  fs,         \* the table files, by path
  extractor,  \* the FeatureExtractor's attributes
  df,         \* the DataFrame in hand
  df0,        \* the DataFrame as it was handed to the operation in progress
  fault,      \* the exception that ended the run, or "none"
  log         \* the operations entered so far, in order

vars == <<pc, config, valid, fs, extractor, df, df0, fault, log>>

----------------------------------------------------------------------------
(* Bounds of the explored inputs *)

MaxLen == 3

----------------------------------------------------------------------------
(* Text values *)

Alphabet == {"y", "@"}

RECURSIVE AllTexts(_)
AllTexts(n) ==
  IF n = 0 THEN {<<>>}
  ELSE LET shorter == AllTexts(n - 1)
       IN  shorter \cup {Append(t, c) : t \in {u \in shorter : Len(u) = n - 1}, c \in Alphabet}

T_nan  == <<"n", "a", "n">>
T_NULL == <<"N", "U", "L", "L">>
T_NY   == <<"N", "Y">>
T_ny   == <<"n", "y">>
T_NJ   == <<"N", "J">>

NamedTexts == {T_nan, T_NULL, T_NY, T_ny, T_NJ}

Texts == AllTexts(MaxLen) \cup NamedTexts

(* str.upper() on one character *)
UpperChar(c) ==
  CASE c = "n" -> "N"
    [] c = "a" -> "A"
    [] c = "y" -> "Y"
    [] OTHER   -> c

upper(s) == [i \in 1..Len(s) |-> UpperChar(s[i])]

(* str.split(sep): the segments between the occurrences of sep *)
RECURSIVE split(_, _)
split(s, sep) ==
  IF \E i \in 1..Len(s) : s[i] = sep
  THEN LET i == CHOOSE k \in 1..Len(s) :
                  s[k] = sep /\ \A j \in 1..(k - 1) : s[j] # sep
       IN  <<SubSeq(s, 1, i - 1)>> \o split(SubSeq(s, i + 1, Len(s)), sep)
  ELSE <<s>>

----------------------------------------------------------------------------
(* Cells *)

NullCell    == [kind |-> "null", s |-> <<>>, b |-> FALSE, n |-> 0]
StrCell(t)  == [kind |-> "str",  s |-> t,    b |-> FALSE, n |-> 0]
BoolCell(v) == [kind |-> "bool", s |-> <<>>, b |-> v,     n |-> 0]
IntCell(k)  == [kind |-> "int",  s |-> <<>>, b |-> FALSE, n |-> k]

IsNull(c) == c.kind = "null"

SourceCells == {NullCell} \cup {StrCell(t) : t \in Texts}

----------------------------------------------------------------------------
(* DataFrames *)

SeqToSet(q) == {q[i] : i \in 1..Len(q)}

EmptyFrame == [cols |-> <<>>, rows |-> <<>>]

HasColumn(t, name) == name \in SeqToSet(t.cols)

(* df[name] = values: a new name is appended as the last column, an existing *)
(* name keeps its position and gets the new values                           *)
SetColumn(t, name, values) ==
  [cols |-> IF HasColumn(t, name) THEN t.cols ELSE Append(t.cols, name),
   rows |-> [i \in 1..Len(t.rows) |->
               [c \in SeqToSet(t.cols) \cup {name} |->
                  IF c = name THEN values[i] ELSE t.rows[i][c]]]]

(* df.replace(["nan", "NULL"], np.nan): whole-cell matches, every column *)
SentinelTexts == {T_nan, T_NULL}

(* Faulty variant: only "nan" is replaced *)
ReplaceCellNanOnly(c) ==
  IF c.kind = "str" /\ c.s = T_nan THEN NullCell ELSE c

ReplaceCell(c) ==
  IF c.kind = "str" /\ c.s \in SentinelTexts THEN NullCell ELSE c

ReplaceSentinels(t) ==
  [cols |-> t.cols,
   rows |-> [i \in 1..Len(t.rows) |->
               [c \in SeqToSet(t.cols) |-> ReplaceCell(t.rows[i][c])]]]

----------------------------------------------------------------------------
(* The five features of FeatureExtractor.extract_features *)

FeatureOrder == <<"HasPhone", "EmailDomain", "FirstNameLength", "LastNameLength", "IsInNY">>

KnownFeatures == SeqToSet(FeatureOrder)

SourceOf(f) ==
  CASE f = "HasPhone"        -> "phone"
    [] f = "EmailDomain"     -> "email"
    [] f = "FirstNameLength" -> "first_name"
    [] f = "LastNameLength"  -> "last_name"
    [] f = "IsInNY"          -> "state"

(* Faulty variant: a truthiness test, which takes the empty text for missing *)
NotNullTruthy(c) == BoolCell(c.kind = "str" /\ c.s # <<>>)

(* Series.notnull() *)
NotNull(c) == BoolCell(~IsNull(c))

(* Faulty variant: .str[1], the segment after the first "@" *)
SplitSecond(c) ==
  IF c.kind = "str" /\ Len(split(c.s, "@")) >= 2
  THEN StrCell(split(c.s, "@")[2])
  ELSE NullCell

(* Series.str.split("@").str[-1] *)
SplitLast(c) ==
  IF c.kind = "str"
  THEN LET parts == split(c.s, "@") IN StrCell(parts[Len(parts)])
  ELSE NullCell

(* Faulty variant: a missing name counted as length 0 *)
StrLenNullZero(c) == IF c.kind = "str" THEN IntCell(Len(c.s)) ELSE IntCell(0)

(* Series.str.len() *)
StrLen(c) == IF c.kind = "str" THEN IntCell(Len(c.s)) ELSE NullCell

(* Faulty variant: the comparison without str.upper() *)
EqNY(c) == BoolCell(c.kind = "str" /\ c.s = T_NY)

(* Series.str.upper() == "NY": a missing value compares unequal *)
UpperEqNY(c) == BoolCell(c.kind = "str" /\ upper(c.s) = T_NY)

FeatureValue(f, c) ==
  CASE f = "HasPhone"        -> NotNull(c)
    [] f = "EmailDomain"     -> SplitLast(c)
    [] f = "FirstNameLength" -> StrLen(c)
    [] f = "LastNameLength"  -> StrLen(c)
    [] f = "IsInNY"          -> UpperEqNY(c)

Requested(features, f) == f \in SeqToSet(features)

(* One "if name in self.features" block: [ok, df] *)
ApplyFeature(features, f, r) ==
  IF ~r.ok \/ ~Requested(features, f) THEN r
  ELSE IF ~HasColumn(r.df, SourceOf(f)) THEN [ok |-> FALSE, df |-> r.df]
  ELSE [ok |-> TRUE,
        df |-> LET src    == r.df.rows
                   values == [i \in 1..Len(src) |-> FeatureValue(f, src[i][SourceOf(f)])]
               IN  SetColumn(r.df, f, values)]

RECURSIVE ApplyFeatures(_, _, _)
ApplyFeatures(features, k, r) ==
  IF k > Len(FeatureOrder) THEN r
  ELSE ApplyFeatures(features, k + 1, ApplyFeature(features, FeatureOrder[k], r))

(* Faulty variant: the features computed in the order of the requested list *)
RECURSIVE ApplyRequested(_, _, _)
ApplyRequested(features, k, r) ==
  IF k > Len(features) THEN r
  ELSE ApplyRequested(features, k + 1,
         IF features[k] \in KnownFeatures THEN ApplyFeature(features, features[k], r) ELSE r)

extract_features_in_request_order(features, t) ==
  ApplyRequested(features, 1, [ok |-> TRUE, df |-> ReplaceSentinels(t)])

(* extract_features(df): [ok, df]; ok = FALSE is the KeyError of a missing *)
(* source column, df then holds the frame as mutated so far                *)
extract_features(features, t) ==
  ApplyFeatures(features, 1, [ok |-> TRUE, df |-> ReplaceSentinels(t)])

----------------------------------------------------------------------------
(* Table files.  A file is a header (column names) and rows of text fields; *)
(* a file without any column is an empty file.                              *)

NoFile == [exists |-> FALSE, cols |-> <<>>, rows |-> <<>>]

DigitChars == <<"0", "1", "2", "3", "4", "5", "6", "7", "8", "9">>

RECURSIVE Digits(_)
Digits(k) ==
  IF k < 10 THEN <<DigitChars[k + 1]>>
  ELSE Append(Digits(k \div 10), DigitChars[(k % 10) + 1])

ColumnHasNull(t, c) == \E i \in 1..Len(t.rows) : IsNull(t.rows[i][c])

(* to_csv's text of one cell: a missing value is written as the empty field; *)
(* an integer column that holds a missing value is a float column            *)
FormatCell(t, c, cell) ==
  CASE cell.kind = "null" -> <<>>
    [] cell.kind = "str"  -> cell.s
    [] cell.kind = "bool" -> IF cell.b THEN <<"T", "r", "u", "e">>
                                       ELSE <<"F", "a", "l", "s", "e">>
    [] cell.kind = "int"  -> IF ColumnHasNull(t, c)
                             THEN Digits(cell.n) \o <<".", "0">>
                             ELSE Digits(cell.n)

(* df.to_csv(path, index=False) *)
to_csv(t) ==
  [exists |-> TRUE,
   cols   |-> t.cols,
   rows   |-> [i \in 1..Len(t.rows) |->
                 [c \in SeqToSet(t.cols) |-> FormatCell(t, c, t.rows[i][c])]]]

(* The texts read_csv takes for a missing value (its default na_values), *)
(* as far as the characters of the model spell them                      *)
STR_NA_VALUES ==
  {<<>>, T_nan, T_NULL, <<"N", "A">>, <<"N", "a", "N">>,
   <<"n", "u", "l", "l">>, <<"N", "o", "n", "e">>}

(* Faulty variant: keep_default_na=False, every field kept as text *)
ParseFieldKeepText(s) == StrCell(s)

ParseField(s) == IF s \in STR_NA_VALUES THEN NullCell ELSE StrCell(s)

InSet(S, x) == x \in S

(* pd.read_csv(csv_path, usecols=field_names): [fault, df] *)
read_csv(file, usecols) ==
  IF ~file.exists THEN [fault |-> "FileNotFoundError", df |-> EmptyFrame]
  ELSE IF Len(file.cols) = 0 THEN [fault |-> "EmptyDataError", df |-> EmptyFrame]
  ELSE IF Len(usecols) = 0 THEN [fault |-> "none", df |-> EmptyFrame]
  ELSE IF ~(SeqToSet(usecols) \subseteq SeqToSet(file.cols))
       THEN [fault |-> "ValueError: usecols", df |-> EmptyFrame]
  ELSE LET keep(c) == InSet(SeqToSet(usecols), c)
           cols    == SelectSeq(file.cols, keep)
       IN  [fault |-> "none",
            df    |-> [cols |-> cols,
                       rows |-> [i \in 1..Len(file.rows) |->
                                   [c \in SeqToSet(cols) |-> ParseField(file.rows[i][c])]]]]

(* Series.astype(dtype) on one cell.  read_csv yields text and missing     *)
(* values only (the texts hold no digits), so a cast to int fails on every *)
(* cell; astype(str) turns a missing value into the text "nan".            *)
CanCast(cell, dtype) ==
  CASE dtype = "str"    -> TRUE
    [] dtype = "object" -> TRUE
    [] dtype = "int"    -> cell.kind = "int"

AsType(cell, dtype) ==
  IF dtype = "str" /\ cell.kind = "null" THEN StrCell(T_nan) ELSE cell

(* field_types: the dict {name: type} of the field definitions *)
FieldNames(fields) == [i \in 1..Len(fields) |-> fields[i].name]

FieldType(fields, c) ==
  LET k == CHOOSE i \in 1..Len(fields) :
             fields[i].name = c /\ \A j \in (i + 1)..Len(fields) : fields[j].name # c
  IN  fields[k].type

(* convert_data_types(df, field_types): [fault, df] *)
convert_data_types(t, fields) ==
  IF \E i \in 1..Len(t.rows), c \in SeqToSet(t.cols) :
       ~CanCast(t.rows[i][c], FieldType(fields, c))
  THEN [fault |-> "ValueError: astype", df |-> t]
  ELSE [fault |-> "none",
        df    |-> [cols |-> t.cols,
                   rows |-> [i \in 1..Len(t.rows) |->
                               [c \in SeqToSet(t.cols) |->
                                  AsType(t.rows[i][c], FieldType(fields, c))]]]]

(* load_csv(csv_path, field_names, field_types): [fault, df] *)
load_csv(file, fields) ==
  LET r == read_csv(file, FieldNames(fields))
  IN  IF r.fault = "EmptyDataError"
      THEN [fault |-> "ValueError: Error reading CSV file", df |-> EmptyFrame]
      ELSE IF r.fault # "none" THEN r
      ELSE convert_data_types(r.df, fields)

----------------------------------------------------------------------------
(* Configuration: the mapping yaml.safe_load returns.  keys is the set of   *)
(* keys present; the value of an absent key is not used.                    *)

Field(name, type) == [name |-> name, type |-> type]

ColsFull == <<"phone", "email", "first_name", "last_name", "state">>

ColsRev == <<"state", "last_name", "first_name", "email", "phone">>

ColsPartial == <<"phone", "email">>

FieldsOf(cols, type) == [i \in 1..Len(cols) |-> Field(cols[i], type)]

FieldsStr == FieldsOf(ColsFull, "str")

FieldsObj == FieldsOf(ColsFull, "object")

FieldsInt == FieldsOf(ColsFull, "int")

FieldsPartial == FieldsOf(ColsPartial, "str")

FieldChoices == {<<>>, FieldsStr, FieldsObj, FieldsInt, FieldsPartial}

FeatureNames == KnownFeatures \cup {"Age"}

NamesAscending == FeatureOrder \o <<"Age">>

NamesDescending == [i \in 1..Len(NamesAscending) |-> NamesAscending[Len(NamesAscending) + 1 - i]]

(* The requested feature lists: every set of names, in two orders *)
FeatureLists ==
  {SelectSeq(order, LAMBDA f : f \in S) : order \in {NamesAscending, NamesDescending},
                                          S \in SUBSET FeatureNames}

ConfigKeys == {"fields", "feature", "input_data_path", "output_data_path"}

DefaultOutputPath == "output.csv"

Paths == {"in.csv", "out.csv", DefaultOutputPath}

MkConfig(keys, fields, feature, inp, out) ==
  [keys             |-> keys,
   fields           |-> IF "fields" \in keys THEN fields ELSE <<>>,
   feature          |-> IF "feature" \in keys THEN feature ELSE <<>>,
   input_data_path  |-> IF "input_data_path" \in keys THEN inp ELSE "",
   output_data_path |-> IF "output_data_path" \in keys THEN out ELSE ""]

MainFeatureLists == {l \in FeatureLists : Len(l) \in {0, 1, Len(NamesAscending)}}

Configs ==
  {MkConfig(keys, fields, feature, "in.csv", "out.csv") :
     keys \in SUBSET ConfigKeys, fields \in FieldChoices, feature \in MainFeatureLists}

(* validate_config(config) *)
required_keys == {"fields"}

(* Faulty variant: fields must also be non-empty *)
validate_config_nonempty(c) ==
  \A key \in required_keys : key \in c.keys /\ c[key] # <<>>

(* Faulty variant: the membership test the wrong way round *)
validate_config_swapped(c) == \A key \in c.keys : key \in required_keys

validate_config(c) == \A key \in required_keys : key \in c.keys

(* Config.validate() *)
validate(c) == validate_config(c)

(* self.config.get("output_data_path", "output.csv") *)
OutputPath(c) ==
  IF "output_data_path" \in c.keys THEN c.output_data_path ELSE DefaultOutputPath

----------------------------------------------------------------------------
(* The tables and files the runs start from *)

RowOf(cols, v, w) ==
  [c \in SeqToSet(cols) |-> IF c \in {"phone", "first_name", "state"} THEN v ELSE w]

TablesOver(colss, cells) ==
  {[cols |-> cols, rows |-> <<>>] : cols \in colss}
  \cup {[cols |-> cols, rows |-> <<RowOf(cols, v, w), RowOf(cols, w, v)>>] :
          cols \in colss, v \in cells, w \in cells}

DeriveTables == TablesOver({ColsFull, ColsRev, ColsPartial}, SourceCells)

RoundTripTables == TablesOver({ColsFull, ColsRev}, SourceCells)

MainCells == {NullCell, StrCell(<<>>), StrCell(T_NY), StrCell(<<"y", "@", "y">>)}

InputFiles ==
  {NoFile, to_csv(EmptyFrame)}
  \cup {to_csv(t) : t \in TablesOver({ColsFull, ColsPartial, Append(ColsFull, "id")}, MainCells)}

NoExtractor == [csv_path |-> "", fields |-> <<>>, features |-> <<>>]

----------------------------------------------------------------------------
(* main(config_path): one run *)

Init ==
  /\ pc = "start"
  /\ config \in Configs
  /\ valid = "unset"
  /\ \E f \in InputFiles : fs = [p \in Paths |-> IF p = "in.csv" THEN f ELSE NoFile]
  /\ extractor = NoExtractor
  /\ df = EmptyFrame
  /\ df0 = EmptyFrame
  /\ fault = "none"
  /\ log = <<>>

Enter(op) == log' = Append(log, op)

Raise(f) == pc' = "aborted" /\ fault' = f

(* Config.__init__: load_config, then validate *)
ConfigInit ==
  /\ pc = "start"
  /\ Enter("Config")
  /\ \E loaded \in {"ok", "FileNotFoundError", "YAMLError"} :
       IF loaded # "ok"
       THEN Raise(loaded) /\ valid' = valid
       ELSE /\ valid' = IF validate(config) THEN "true" ELSE "false"
            /\ IF validate(config)
               THEN pc' = "config" /\ fault' = fault
               ELSE Raise("ValueError: Invalid configuration file.")
  /\ UNCHANGED <<config, fs, extractor, df, df0>>

(* load_and_validate_config, after Config(config_path) returned *)
LoadAndValidateConfig ==
  /\ pc = "config"
  /\ Enter("load_and_validate_config")
  /\ valid' = IF validate(config) THEN "true" ELSE "false"
  /\ IF validate(config)
     THEN pc' = "validated" /\ fault' = fault
     ELSE Raise("ValueError: Invalid configuration")
  /\ UNCHANGED <<config, fs, extractor, df, df0>>

(* FeatureExtractor.__init__ *)
FeatureExtractorInit ==
  /\ pc = "validated"
  /\ Enter("FeatureExtractor")
  /\ IF ~({"input_data_path", "fields", "feature"} \subseteq config.keys)
     THEN Raise("KeyError") /\ extractor' = extractor
     ELSE /\ extractor' = [csv_path |-> config.input_data_path,
                           fields   |-> config.fields,
                           features |-> config.feature]
          /\ pc' = "constructed"
          /\ fault' = fault
  /\ UNCHANGED <<config, valid, fs, df, df0>>

(* load_csv_with_types(): self.config.get("fields", []) and load_csv *)
load_csv_with_types(c, x, files) ==
  load_csv(files[x.csv_path], IF "fields" \in c.keys THEN c.fields ELSE <<>>)

LoadCsvWithTypes ==
  /\ pc = "constructed"
  /\ Enter("load_csv_with_types")
  /\ LET r == load_csv_with_types(config, extractor, fs)
     IN  IF r.fault # "none"
         THEN Raise(r.fault) /\ df' = df
         ELSE df' = r.df /\ pc' = "loaded" /\ fault' = fault
  /\ UNCHANGED <<config, valid, fs, extractor, df0>>

(* extract_features(df): the frame is changed in place *)
ExtractFeatures ==
  /\ pc = "loaded"
  /\ Enter("extract_features")
  /\ df0' = df
  /\ LET r == extract_features(extractor.features, df)
     IN  /\ df' = r.df
         /\ IF r.ok THEN pc' = "derived" /\ fault' = fault ELSE Raise("KeyError")
  /\ UNCHANGED <<config, valid, fs, extractor>>

(* save_features(df) *)
SaveFeatures ==
  /\ pc = "derived"
  /\ Enter("save_features")
  /\ \E writable \in BOOLEAN :
       IF writable
       THEN /\ fs' = [fs EXCEPT ![OutputPath(config)] = to_csv(df)]
            /\ pc' = "saved"
            /\ fault' = fault
       ELSE Raise("OSError") /\ fs' = fs
  /\ UNCHANGED <<config, valid, extractor, df, df0>>

(* Faulty variant: main goes on to its closing lines after a fault *)
CompleteAfterFault ==
  /\ pc \in {"saved", "aborted"}
  /\ Enter("complete")
  /\ pc' = "done"
  /\ UNCHANGED <<config, valid, fs, extractor, df, df0, fault>>

(* main, after extract_feature returned: the two closing log lines *)
Complete ==
  /\ pc = "saved"
  /\ Enter("complete")
  /\ pc' = "done"
  /\ UNCHANGED <<config, valid, fs, extractor, df, df0, fault>>

Next ==
  \/ ConfigInit
  \/ LoadAndValidateConfig
  \/ FeatureExtractorInit
  \/ LoadCsvWithTypes
  \/ ExtractFeatures
  \/ SaveFeatures
  \/ Complete

Spec == Init /\ [][Next]_vars

----------------------------------------------------------------------------
(* extract_features called on a frame built in memory, as the unit tests do *)

SampleConfig == MkConfig(ConfigKeys, FieldsStr, FeatureOrder, "in.csv", "out.csv")

InitDerive ==
  /\ pc = "loaded"
  /\ config = SampleConfig
  /\ valid = "true"
  /\ fs = [p \in Paths |-> NoFile]
  /\ \E l \in FeatureLists :
       extractor = [csv_path |-> "in.csv", fields |-> FieldsStr, features |-> l]
  /\ df \in DeriveTables
  /\ df0 = EmptyFrame
  /\ fault = "none"
  /\ log = <<"Config", "FeatureExtractor">>

NextDerive == ExtractFeatures

SpecDerive == InitDerive /\ [][NextDerive]_vars

----------------------------------------------------------------------------
(* save_features followed by load_csv_with_types of the written file under *)
(* the same field definitions                                              *)

RoundTripConfigs ==
  {MkConfig(ConfigKeys, FieldsOf(cols, type), <<>>, "out.csv", "out.csv") :
     cols \in {ColsFull, ColsPartial}, type \in {"str", "object"}}

InitRoundTrip ==
  /\ pc = "derived"
  /\ config \in RoundTripConfigs
  /\ valid = "true"
  /\ fs = [p \in Paths |-> NoFile]
  /\ extractor = [csv_path |-> config.input_data_path,
                  fields   |-> config.fields,
                  features |-> config.feature]
  /\ df \in RoundTripTables
  /\ df0 = EmptyFrame
  /\ fault = "none"
  /\ log = <<"Config", "FeatureExtractor">>

LoadBack ==
  /\ pc = "saved"
  /\ extractor.csv_path = OutputPath(config)
  /\ Enter("load_csv_with_types")
  /\ df0' = df
  /\ LET r == load_csv_with_types(config, extractor, fs)
     IN  IF r.fault # "none"
         THEN Raise(r.fault) /\ df' = df
         ELSE df' = r.df /\ pc' = "reloaded" /\ fault' = fault
  /\ UNCHANGED <<config, valid, fs, extractor>>

NextRoundTrip ==
  \/ SaveFeatures
  \/ LoadBack

SpecRoundTrip == InitRoundTrip /\ [][NextRoundTrip]_vars

----------------------------------------------------------------------------
(* Properties *)

InLog(op) == op \in SeqToSet(log)

IsPrefix(p, q) == Len(p) <= Len(q) /\ \A i \in 1..Len(p) : p[i] = q[i]

StageOrder ==
  <<"Config", "load_and_validate_config", "FeatureExtractor",
    "load_csv_with_types", "extract_features", "save_features", "complete">>

PcAfter ==
  <<"config", "validated", "constructed", "loaded", "derived", "saved", "done">>

TableWritten == \E p \in Paths \ {"in.csv"} : fs[p].exists

C1_State ==
  /\ IsPrefix(log, StageOrder)
  /\ (fault # "none") <=> (pc = "aborted")
  /\ fault = "none" => pc = IF log = <<>> THEN "start" ELSE PcAfter[Len(log)]
  /\ pc = "aborted" => log # <<>>
  /\ InLog("load_csv_with_types") => valid = "true" /\ "fields" \in config.keys
  /\ TableWritten => InLog("save_features") /\ fault = "none"
  /\ pc = "done" => log = StageOrder /\ fault = "none" /\ TableWritten

C1_Step == pc \notin {"aborted", "done"} /\ Len(log') = Len(log) + 1

(* C1: the run enters its stages in the fixed order Config (load and       *)
(* validate), load_csv_with_types, extract_features, save_features, each   *)
(* at most once and each only after the one before returned; the table is  *)
(* read only after the configuration validated and the output is written   *)
(* only after derivation returned; a fault ends the run where it happened: *)
(* no step is taken from the aborted state, and the completion state is    *)
(* reached only without a fault.                                           *)
C1_SequentialPipeline == []C1_State /\ [][C1_Step]_vars

C1_Witness ==
  /\ pc = "aborted"
  /\ log = SubSeq(StageOrder, 1, 5)
  /\ ~TableWritten

InvalidConfigFault == "ValueError: Invalid configuration file."

LoadFaults == {"FileNotFoundError", "YAMLError"}

(* C2: validate returns true exactly when the key fields is present in the *)
(* loaded configuration, whatever its value (an empty list passes); a      *)
(* configuration without the key makes Config's construction fail with     *)
(* ValueError "Invalid configuration file." as the first and only          *)
(* operation of the run, with no table file read or written.               *)
C2_ValidateIffFieldsKey ==
  /\ valid = "true" => "fields" \in config.keys
  /\ valid = "false" => "fields" \notin config.keys
  /\ (log # <<>> /\ fault \notin LoadFaults) => valid # "unset"
  /\ ("fields" \notin config.keys /\ valid # "unset") =>
       /\ pc = "aborted"
       /\ fault = InvalidConfigFault
       /\ log = <<"Config">>
       /\ ~TableWritten
       /\ df = EmptyFrame
  /\ fault = InvalidConfigFault => "fields" \notin config.keys

C2_Witness ==
  /\ fault = InvalidConfigFault
  /\ "fields" \notin config.keys
  /\ config.keys # {}

(* C3 as stated: no run whose fields entry is absent or empty gets to the *)
(* table-loading stage.                                                   *)
C3_AbsentOrEmptyRejected ==
  ("fields" \notin config.keys \/ config.fields = <<>>) => ~InLog("load_csv_with_types")

(* C3, amended: a configuration whose fields entry is absent never gets   *)
(* past Config's construction, which fails with the validation error; an  *)
(* empty fields list is not rejected by validation.                       *)
C3_AbsentRejectedEmptyPasses ==
  /\ "fields" \notin config.keys =>
       /\ Len(log) <= 1
       /\ pc \in {"start", "aborted"}
       /\ (pc = "aborted" => fault \in LoadFaults \cup {InvalidConfigFault})
  /\ ("fields" \in config.keys /\ config.fields = <<>>) =>
       /\ fault # InvalidConfigFault
       /\ valid # "false"
       /\ (pc = "aborted" /\ Len(log) = 1 => fault \in LoadFaults)

C3_Witness ==
  /\ "fields" \in config.keys
  /\ config.fields = <<>>
  /\ InLog("load_csv_with_types")
  /\ pc = "loaded"

Extracted == pc = "derived" /\ InLog("extract_features")

Wanted(f) == f \in SeqToSet(extractor.features)

RowIds == 1..Len(df.rows)

(* C4: when HasPhone is requested, after extract_features every row has   *)
(* HasPhone = true exactly when its phone value is not null; an empty     *)
(* text is not null and gives true.                                       *)
C4_HasPhone ==
  (Extracted /\ Wanted("HasPhone")) =>
    /\ HasColumn(df, "HasPhone")
    /\ \A i \in RowIds :
         /\ df.rows[i]["HasPhone"].kind = "bool"
         /\ df.rows[i]["HasPhone"].b <=> (df.rows[i]["phone"].kind # "null")
         /\ df.rows[i]["phone"] = StrCell(<<>>) => df.rows[i]["HasPhone"] = BoolCell(TRUE)

C4_Witness ==
  /\ Extracted
  /\ Wanted("HasPhone")
  /\ \E i \in RowIds : df0.rows[i]["phone"] = StrCell(<<>>) /\ df.rows[i]["HasPhone"].b
  /\ \E i \in RowIds : df0.rows[i]["phone"] = NullCell /\ ~df.rows[i]["HasPhone"].b

HasAt(s) == \E i \in 1..Len(s) : s[i] = "@"

(* the text after the last "@" of s *)
IsAfterLastAt(d, s) ==
  \E i \in 1..Len(s) :
    /\ s[i] = "@"
    /\ \A j \in (i + 1)..Len(s) : s[j] # "@"
    /\ Len(d) = Len(s) - i
    /\ \A j \in 1..Len(d) : d[j] = s[i + j]

(* C5: when EmailDomain is requested, after extract_features every row's  *)
(* EmailDomain is the text after the last "@" of its email, the whole     *)
(* email when it holds no "@", and null when the email is null.           *)
C5_EmailDomain ==
  (Extracted /\ Wanted("EmailDomain")) =>
    /\ HasColumn(df, "EmailDomain")
    /\ \A i \in RowIds :
         LET e == df.rows[i]["email"]
             d == df.rows[i]["EmailDomain"]
         IN  /\ e.kind = "null" => d = NullCell
             /\ (e.kind = "str" /\ ~HasAt(e.s)) => d = e
             /\ (e.kind = "str" /\ HasAt(e.s)) => d.kind = "str" /\ IsAfterLastAt(d.s, e.s)

C5_Witness ==
  /\ Extracted
  /\ Wanted("EmailDomain")
  /\ \E i \in RowIds : /\ df0.rows[i]["email"] = StrCell(<<"y", "@", "@">>)
                       /\ df.rows[i]["EmailDomain"] = StrCell(<<>>)
  /\ \E i \in RowIds : /\ df0.rows[i]["email"] = StrCell(<<"y", "y">>)
                       /\ df.rows[i]["EmailDomain"] = StrCell(<<"y", "y">>)

(* C6: when IsInNY is requested, after extract_features every row has     *)
(* IsInNY = true exactly when its state is a text of the two letters N or *)
(* n, then Y or y (the texts whose uppercase is "NY"); a null state gives *)
(* false.                                                                 *)
C6_IsInNY ==
  (Extracted /\ Wanted("IsInNY")) =>
    /\ HasColumn(df, "IsInNY")
    /\ \A i \in RowIds :
         LET st == df.rows[i]["state"]
             ny == df.rows[i]["IsInNY"]
         IN  /\ ny.kind = "bool"
             /\ ny.b <=> /\ st.kind = "str"
                         /\ Len(st.s) = 2
                         /\ st.s[1] \in {"N", "n"}
                         /\ st.s[2] \in {"Y", "y"}
             /\ st.kind = "null" => ny = BoolCell(FALSE)

C6_Witness ==
  /\ Extracted
  /\ Wanted("IsInNY")
  /\ \E i \in RowIds : df0.rows[i]["state"] = StrCell(T_ny) /\ df.rows[i]["IsInNY"].b
  /\ \E i \in RowIds : df0.rows[i]["state"] = NullCell /\ ~df.rows[i]["IsInNY"].b

LengthOf(f, i) ==
  LET name == df.rows[i][SourceOf(f)]
  IN  IF name.kind = "null" THEN NullCell ELSE IntCell(Cardinality(DOMAIN name.s))

(* C7: when FirstNameLength (LastNameLength) is requested, after          *)
(* extract_features every row's FirstNameLength (LastNameLength) is the   *)
(* number of characters of its first_name (last_name), and null when that *)
(* name is null.                                                          *)
C7_NameLengths ==
  \A f \in {"FirstNameLength", "LastNameLength"} :
    (Extracted /\ Wanted(f)) =>
      /\ HasColumn(df, f)
      /\ \A i \in RowIds : df.rows[i][f] = LengthOf(f, i)

C7_Witness ==
  /\ Extracted
  /\ Wanted("FirstNameLength")
  /\ Wanted("LastNameLength")
  /\ \E i \in RowIds : /\ df0.rows[i]["first_name"] = NullCell
                       /\ df.rows[i]["FirstNameLength"] = NullCell
                       /\ df0.rows[i]["last_name"] = StrCell(<<"y", "@", "y">>)
                       /\ df.rows[i]["LastNameLength"] = IntCell(3)

ConfiguredCols == SeqToSet(FieldNames(config.fields))

(* C8 as stated: after the written file is loaded back, every row has in  *)
(* every configured column the value that was written.                    *)
C8_RoundTripEqual ==
  pc = "reloaded" =>
    /\ Len(df.rows) = Len(df0.rows)
    /\ \A i \in RowIds, c \in ConfiguredCols : df.rows[i][c] = df0.rows[i][c]

BackFromMissing(c) ==
  IF FieldType(config.fields, c) = "str" THEN StrCell(T_nan) ELSE NullCell

(* C8, amended: loading the written file back never faults and keeps the  *)
(* rows; a cell comes back as written when it is a non-empty text that is *)
(* none of read_csv's missing-value texts; a null cell, an empty text and *)
(* a missing-value text all come back as one value: the text "nan" in a   *)
(* column of type str, null in a column of type object.                   *)
C8_RoundTripOfPresentText ==
  /\ (InLog("load_csv_with_types") /\ InLog("save_features")) => pc = "reloaded"
  /\ pc = "reloaded" =>
       /\ Len(df.rows) = Len(df0.rows)
       /\ SeqToSet(df.cols) = ConfiguredCols
       /\ \A i \in RowIds, c \in ConfiguredCols :
            LET w == df0.rows[i][c]
            IN  IF w.kind = "str" /\ w.s \notin STR_NA_VALUES
                THEN df.rows[i][c] = w
                ELSE df.rows[i][c] = BackFromMissing(c)

C8_Witness ==
  /\ pc = "reloaded"
  /\ \E i \in RowIds :
       /\ df0.rows[i]["phone"] = StrCell(<<>>)
       /\ df0.rows[i]["email"] = StrCell(<<"y", "@", "y">>)
       /\ df.rows[i]["phone"] # df0.rows[i]["phone"]
       /\ df.rows[i]["email"] = df0.rows[i]["email"]

Ran == InLog("extract_features")

IsSentinel(c) == c.kind = "str" /\ (c.s = T_nan \/ c.s = T_NULL)

(* C9: extract_features replaces every cell that is the text "nan" or     *)
(* "NULL" by null, in every column and for every requested list (the      *)
(* empty one too), leaves every other cell of the original columns as it  *)
(* was, and computes the features from the replaced values: a phone of    *)
(* "NULL" gives HasPhone = false, a first_name of "nan" gives             *)
(* FirstNameLength = null.                                                *)
C9_SentinelsReplacedFirst ==
  Ran =>
    /\ Len(df.rows) = Len(df0.rows)
    /\ \A i \in RowIds, c \in SeqToSet(df0.cols) :
         /\ IsSentinel(df0.rows[i][c]) => df.rows[i][c] = NullCell
         /\ ~IsSentinel(df0.rows[i][c]) => df.rows[i][c] = df0.rows[i][c]
    /\ (Extracted /\ Wanted("HasPhone")) =>
         \A i \in RowIds :
           df0.rows[i]["phone"] = StrCell(T_NULL) => df.rows[i]["HasPhone"] = BoolCell(FALSE)
    /\ (Extracted /\ Wanted("FirstNameLength")) =>
         \A i \in RowIds :
           df0.rows[i]["first_name"] = StrCell(T_nan) => df.rows[i]["FirstNameLength"] = NullCell

C9_Witness ==
  /\ Extracted
  /\ Wanted("HasPhone")
  /\ Wanted("FirstNameLength")
  /\ \E i \in RowIds : /\ df0.rows[i]["phone"] = StrCell(T_NULL)
                       /\ df.rows[i]["phone"] = NullCell
                       /\ df.rows[i]["HasPhone"] = BoolCell(FALSE)
  /\ \E i \in RowIds : /\ df0.rows[i]["first_name"] = StrCell(T_nan)
                       /\ df.rows[i]["FirstNameLength"] = NullCell

HoldsSourcesOnly(t) ==
  /\ SeqToSet(ColsFull) \subseteq SeqToSet(t.cols)
  /\ SeqToSet(t.cols) \cap KnownFeatures = {}

(* the requested names among the five, in the fixed order *)
AddedColumns == SelectSeq(FeatureOrder, Wanted)

(* C10: on a table that holds the five source columns and none of the     *)
(* derived names, extract_features returns without a fault for every      *)
(* requested list; the columns are the original ones in their order       *)
(* followed by the requested names among the five in the fixed order,     *)
(* whatever the order of the requested list; a name outside the five adds *)
(* no column; the rows keep their number and their order.                 *)
C10_ColumnsAppendedInFixedOrder ==
  (Ran /\ HoldsSourcesOnly(df0)) =>
    /\ pc = "derived"
    /\ fault = "none"
    /\ df.cols = df0.cols \o AddedColumns
    /\ Len(df.rows) = Len(df0.rows)
    /\ \A i \in RowIds :
         /\ DOMAIN df.rows[i] = SeqToSet(df.cols)
         /\ \A c \in SeqToSet(df0.cols) :
              df.rows[i][c] = IF IsSentinel(df0.rows[i][c]) THEN NullCell ELSE df0.rows[i][c]

C10_Witness ==
  /\ Extracted
  /\ df0.cols = ColsRev
  /\ extractor.features = <<"Age", "IsInNY", "EmailDomain", "HasPhone">>
  /\ df.cols = ColsRev \o <<"HasPhone", "EmailDomain", "IsInNY">>
  /\ Len(df.rows) = 2
  /\ df.rows[1]["phone"] # df.rows[2]["phone"]

====
